---- MODULE Spec2Model ----
(***************************************************************************)
(* fast-diff-merge: a character-level edit script is re-segmented into     *)
(* word-level Replace fragments (src/src/index.ts).                        *)
(*                                                                         *)
(* A text is a sequence of one-character strings; offsets are 0-based as   *)
(* in the source, sequence positions are 1-based.                          *)
(***************************************************************************)
EXTENDS Integers, Sequences, FiniteSets, TLC

VARIABLES
    options,     \* getDiff's third argument: <<>> (absent) or <<separators>>
    original,    \* getDiff's first argument
    fixed,       \* getDiff's second argument
    separators,  \* mergedOptions.separators
    changes,     \* the raw edit script returned by the diff engine
    pc,          \* the statement getDiff (or the called function) is at
    replaceSet,  \* the list the current fold runs over
    idx,         \* how many elements of replaceSet the fold has consumed
    acc,         \* the fold's accumulator
    lastMerge,   \* the last mergeReplacePair call of the reducer (<<>>: none yet)
    result,      \* the value getDiff returns
    call,        \* arguments of a direct call of an exported function
    ret          \* what that call returned

vars == <<options, original, fixed, separators, changes, pc, replaceSet, idx,
          acc, lastMerge, result, call, ret>>

----------------------------------------------------------------------------
(* Bounds *)

\* characters that the ops of a raw edit script carry in all
MaxScriptLen == 4

\* characters in the texts of a directly called pair (an identity's text once)
MaxPairLen == 4

----------------------------------------------------------------------------
(* Texts *)

SP == " "
CR == "\r"
LF == "\n"

TextsOfLen(alphabet, n) == [1..n -> alphabet]

Texts(alphabet, n) == UNION {TextsOfLen(alphabet, k) : k \in 0..n}

Max(S) == CHOOSE x \in S : \A y \in S : y <= x

Min(S) == CHOOSE x \in S : \A y \in S : x <= y

\* String.prototype.startsWith
StartsWith(text, s) ==
    Len(s) <= Len(text) /\ SubSeq(text, 1, Len(s)) = s

\* String.prototype.endsWith
EndsWith(text, s) ==
    Len(s) <= Len(text) /\ SubSeq(text, Len(text) - Len(s) + 1, Len(text)) = s

\* the 0-based start indexes of the occurrences of s in text
Occurrences(text, s) ==
    {i \in 0..(Len(text) - Len(s)) : SubSeq(text, i + 1, i + Len(s)) = s}

\* String.prototype.lastIndexOf
LastIndexOf(text, s) ==
    IF Occurrences(text, s) = {} THEN -1 ELSE Max(Occurrences(text, s))

\* String.prototype.indexOf
IndexOf(text, s) ==
    IF Occurrences(text, s) = {} THEN -1 ELSE Min(Occurrences(text, s))

\* String.prototype.split with a non-empty separator: cut at the occurrences
\* found scanning from the left, each search resuming after the previous match
RECURSIVE Split(_, _)
Split(text, s) ==
    LET i == IndexOf(text, s)
    IN  IF i = -1
        THEN <<text>>
        ELSE <<SubSeq(text, 1, i)>> \o Split(SubSeq(text, i + Len(s) + 1, Len(text)), s)

\* Array.prototype.join
RECURSIVE Join(_, _)
Join(parts, s) ==
    IF Len(parts) = 0 THEN <<>>
    ELSE IF Len(parts) = 1 THEN parts[1]
    ELSE parts[1] \o s \o Join(Tail(parts), s)

\* Array.prototype.pop / shift as values: the array without its last / first
Front(parts) == SubSeq(parts, 1, Len(parts) - 1)

RECURSIVE Concat(_)
Concat(texts) ==
    IF Len(texts) = 0 THEN <<>> ELSE texts[1] \o Concat(Tail(texts))

----------------------------------------------------------------------------
(* Replace *)

Replace(from, to, o, r) ==
    [from |-> from, to |-> to, original |-> o, replacement |-> r]

isIdentity(replace) == replace.replacement = replace.original

defaultOptions == [separators |-> <<<<SP>>>>]

----------------------------------------------------------------------------
(* convertDiffToReplaceSet *)

\* the fragment the map callback returns for one op at the given cursor
ConvertOp(op, position) ==
    CASE op[1] = "EQUAL" ->
            Replace(position, position + Len(op[2]), op[2], op[2])
      [] op[1] = "DELETE" ->
            Replace(position, position + Len(op[2]), op[2], <<>>)
      [] op[1] = "INSERT" ->
            Replace(position, position, <<>>, op[2])

\* the cursor after the op
Advance(op, position) ==
    IF op[1] = "INSERT" THEN position ELSE position + Len(op[2])

RECURSIVE ConvertFrom(_, _)
ConvertFrom(diffSet, position) ==
    IF Len(diffSet) = 0 THEN <<>>
    ELSE <<ConvertOp(diffSet[1], position)>>
         \o ConvertFrom(Tail(diffSet), Advance(diffSet[1], position))

convertDiffToReplaceSet(diffSet) == ConvertFrom(diffSet, 0)

----------------------------------------------------------------------------
(* Separator matchers *)

defaultGetLastSeparator(text) == [s |-> <<SP>>, i |-> LastIndexOf(text, <<SP>>)]

defaultStartsWithSeparator(text) == StartsWith(text, <<SP>>)

defaultEndsWithSeparator(text) == EndsWith(text, <<SP>>)

\* new Set(separators)
separatorSet(seps) == {seps[k] : k \in 1..Len(seps)}

\* the function startsWithSeparatorFactory(seps) returns, applied to text
startsWithSeparatorFactory(seps, text) ==
    IF Len(seps) = 0 THEN FALSE
    ELSE IF Len(seps) = 1 THEN StartsWith(text, seps[1])
    ELSE IF Len(text) > 0 THEN <<text[1]>> \in separatorSet(seps)
    ELSE FALSE

\* the function endsWithSeparatorFactory(seps) returns, applied to text
endsWithSeparatorFactory(seps, text) ==
    IF Len(seps) = 0 THEN FALSE
    ELSE IF Len(seps) = 1 THEN EndsWith(text, seps[1])
    ELSE IF Len(text) > 0 THEN <<text[Len(text)]>> \in separatorSet(seps)
    ELSE FALSE

\* Faulty variant of LastSeparatorVisit (`>=` for `>`): at equal indexes the
\* later, shorter separator replaces the longer one.
LastSeparatorVisitTieToLater(found, separator, text) ==
    LET index == LastIndexOf(text, separator)
    IN  IF index >= found.i /\ index # -1
        THEN [s |-> separator, i |-> index]
        ELSE found

\* one iteration of the forEach callback of lastSeparatorFactory
LastSeparatorVisit(found, separator, text) ==
    LET index == LastIndexOf(text, separator)
    IN  IF index > found.i THEN [s |-> separator, i |-> index] ELSE found

\* the forEach of lastSeparatorFactory from the k-th separator on
RECURSIVE LastSeparatorScan(_, _, _, _)
LastSeparatorScan(seps, text, k, found) ==
    IF k > Len(seps) THEN found
    ELSE LastSeparatorScan(seps, text, k + 1, LastSeparatorVisit(found, seps[k], text))

\* the function lastSeparatorFactory(seps) returns, applied to text
lastSeparatorFactory(seps, text) ==
    IF Len(seps) = 0 THEN [s |-> <<SP>>, i |-> -1]
    ELSE IF Len(seps) = 1 THEN [s |-> seps[1], i |-> LastIndexOf(text, seps[1])]
    ELSE LastSeparatorScan(seps, text, 1, [s |-> <<SP>>, i |-> -1])

\* The three matcher arguments of mergeReplacePair are closures; a closure is
\* represented by what it captures: nothing (the default parameters) or the
\* separator list its factory was given.
DefaultMatchers == [default |-> TRUE, separators |-> <<>>]

MatchersFor(seps) == [default |-> FALSE, separators |-> seps]

getLastSeparator(m, text) ==
    IF m.default THEN defaultGetLastSeparator(text)
    ELSE lastSeparatorFactory(m.separators, text)

startsWithSeparator(m, text) ==
    IF m.default THEN defaultStartsWithSeparator(text)
    ELSE startsWithSeparatorFactory(m.separators, text)

endsWithSeparator(m, text) ==
    IF m.default THEN defaultEndsWithSeparator(text)
    ELSE endsWithSeparatorFactory(m.separators, text)

----------------------------------------------------------------------------
(* fixSeparators *)

RECURSIVE FilterNonEmpty(_)
FilterNonEmpty(seps) ==
    IF Len(seps) = 0 THEN <<>>
    ELSE IF Len(seps[1]) > 0 THEN <<seps[1]>> \o FilterNonEmpty(Tail(seps))
    ELSE FilterNonEmpty(Tail(seps))

\* s put into a list sorted by descending length, after the elements that do
\* not sort after it (Array.prototype.sort is stable)
RECURSIVE InsertByLength(_, _)
InsertByLength(sorted, s) ==
    IF Len(sorted) = 0 THEN <<s>>
    ELSE IF Len(sorted[1]) >= Len(s)
         THEN <<sorted[1]>> \o InsertByLength(Tail(sorted), s)
         ELSE <<s>> \o sorted

\* fixedSeparators.sort((a, b) => b.length - a.length)
RECURSIVE SortByLengthDesc(_)
SortByLengthDesc(seps) ==
    IF Len(seps) = 0 THEN <<>>
    ELSE InsertByLength(SortByLengthDesc(Front(seps)), seps[Len(seps)])

\* the list fixSeparators returns; an empty one stands for the thrown error
fixSeparators(seps) == SortByLengthDesc(FilterNonEmpty(seps))

----------------------------------------------------------------------------
(* mergeReplacePair *)

\* the single fragment that replaces the pair
MergedPair(leftReplace, rightReplace) ==
    Replace(leftReplace.from, rightReplace.to,
            leftReplace.original \o rightReplace.original,
            leftReplace.replacement \o rightReplace.replacement)

\* Faulty variant of LeaveRightAsIs (`||` for `&&`): any pure insertion or
\* deletion on the right is left as it is.
LeaveRightAsIsAnyPureEdit(rightReplace, m) ==
    \/ startsWithSeparator(m, rightReplace.replacement) \/ rightReplace.original = <<>>
    \/ startsWithSeparator(m, rightReplace.original) \/ rightReplace.replacement = <<>>

\* the guard of the left-identity case
LeaveRightAsIs(rightReplace, m) ==
    \/ startsWithSeparator(m, rightReplace.replacement) /\ rightReplace.original = <<>>
    \/ startsWithSeparator(m, rightReplace.original) /\ rightReplace.replacement = <<>>

\* the guard of the right-identity case
LeaveLeftAsIs(leftReplace, m) ==
    \/ endsWithSeparator(m, leftReplace.replacement) /\ leftReplace.original = <<>>
    \/ endsWithSeparator(m, leftReplace.original) /\ leftReplace.replacement = <<>>

\* leftSplit.pop() || ""
lastWord(text, s) == Split(text, s)[Len(Split(text, s))]

\* Faulty variant of textWithoutLastWord: the separator before the last
\* word is not put back.
textWithoutLastWordSeparatorLost(text, s) == Join(Front(Split(text, s)), s)

textWithoutLastWord(text, s) ==
    LET leftSplit == Front(Split(text, s))
    IN  Join(leftSplit, s) \o (IF Len(leftSplit) # 0 THEN s ELSE <<>>)

\* rightSplit.shift() || ""
firstWord(text, s) == Split(text, s)[1]

textWithoutFirstWord(text, s) ==
    LET rightSplit == Tail(Split(text, s))
    IN  (IF Len(rightSplit) # 0 THEN s ELSE <<>>) \o Join(rightSplit, s)

\* Faulty variant of SplitLeftIdentity: the second fragment starts at
\* leftReplace.from.
SplitLeftIdentityFromKept(leftReplace, rightReplace, lastSeparator) ==
    LET word == lastWord(leftReplace.original, lastSeparator.s)
        kept == textWithoutLastWord(leftReplace.original, lastSeparator.s)
    IN  (IF Len(kept) # 0
         THEN <<Replace(leftReplace.from, leftReplace.from + Len(kept), kept, kept)>>
         ELSE <<>>)
        \o <<Replace(leftReplace.from, rightReplace.to,
                     word \o rightReplace.original,
                     word \o rightReplace.replacement)>>

\* the left-identity case once a separator was found
SplitLeftIdentity(leftReplace, rightReplace, lastSeparator) ==
    LET word == lastWord(leftReplace.original, lastSeparator.s)
        kept == textWithoutLastWord(leftReplace.original, lastSeparator.s)
    IN  (IF Len(kept) # 0
         THEN <<Replace(leftReplace.from, leftReplace.from + Len(kept), kept, kept)>>
         ELSE <<>>)
        \o <<Replace(leftReplace.from + Len(kept), rightReplace.to,
                     word \o rightReplace.original,
                     word \o rightReplace.replacement)>>

\* Faulty variant of SplitRightIdentity: the second fragment starts at
\* leftReplace.to.
SplitRightIdentityFromKept(leftReplace, rightReplace, lastSeparator) ==
    LET word == firstWord(rightReplace.original, lastSeparator.s)
        kept == textWithoutFirstWord(rightReplace.original, lastSeparator.s)
    IN  IF kept = lastSeparator.s
        THEN <<MergedPair(leftReplace, rightReplace)>>
        ELSE <<Replace(leftReplace.from, leftReplace.to + Len(word),
                       leftReplace.original \o word,
                       leftReplace.replacement \o word)>>
             \o (IF Len(kept) # 0
                 THEN <<Replace(leftReplace.to, rightReplace.to, kept, kept)>>
                 ELSE <<>>)

\* the right-identity case once a separator was found
SplitRightIdentity(leftReplace, rightReplace, lastSeparator) ==
    LET word == firstWord(rightReplace.original, lastSeparator.s)
        kept == textWithoutFirstWord(rightReplace.original, lastSeparator.s)
    IN  IF kept = lastSeparator.s
        THEN <<MergedPair(leftReplace, rightReplace)>>
        ELSE <<Replace(leftReplace.from, leftReplace.to + Len(word),
                       leftReplace.original \o word,
                       leftReplace.replacement \o word)>>
             \o (IF Len(kept) # 0
                 THEN <<Replace(leftReplace.to + Len(word), rightReplace.to, kept, kept)>>
                 ELSE <<>>)

\* mergeReplacePair's precondition; the call throws when it fails
Adjacent(leftReplace, rightReplace) == leftReplace.to = rightReplace.from

\* Faulty variant of mergeReplacePair: two identity fragments are returned
\* as they are instead of merged.
mergeReplacePairIdentitiesKept(leftReplace, rightReplace, m) ==
    IF isIdentity(leftReplace) /\ isIdentity(rightReplace)
    THEN <<leftReplace, rightReplace>>
    ELSE IF isIdentity(leftReplace)
    THEN IF LeaveRightAsIs(rightReplace, m)
         THEN <<leftReplace, rightReplace>>
         ELSE IF getLastSeparator(m, leftReplace.replacement).i = -1
         THEN <<MergedPair(leftReplace, rightReplace)>>
         ELSE SplitLeftIdentity(leftReplace, rightReplace,
                                getLastSeparator(m, leftReplace.replacement))
    ELSE IF isIdentity(rightReplace)
    THEN IF LeaveLeftAsIs(leftReplace, m)
         THEN <<leftReplace, rightReplace>>
         ELSE IF getLastSeparator(m, rightReplace.original).i = -1
         THEN <<MergedPair(leftReplace, rightReplace)>>
         ELSE SplitRightIdentity(leftReplace, rightReplace,
                                 getLastSeparator(m, rightReplace.original))
    ELSE <<MergedPair(leftReplace, rightReplace)>>

\* what mergeReplacePair returns for an adjacent pair
mergeReplacePair(leftReplace, rightReplace, m) ==
    IF isIdentity(leftReplace) /\ isIdentity(rightReplace)
    THEN <<MergedPair(leftReplace, rightReplace)>>
    ELSE IF isIdentity(leftReplace)
    THEN IF LeaveRightAsIs(rightReplace, m)
         THEN <<leftReplace, rightReplace>>
         ELSE IF getLastSeparator(m, leftReplace.replacement).i = -1
         THEN <<MergedPair(leftReplace, rightReplace)>>
         ELSE SplitLeftIdentity(leftReplace, rightReplace,
                                getLastSeparator(m, leftReplace.replacement))
    ELSE IF isIdentity(rightReplace)
    THEN IF LeaveLeftAsIs(leftReplace, m)
         THEN <<leftReplace, rightReplace>>
         ELSE IF getLastSeparator(m, rightReplace.original).i = -1
         THEN <<MergedPair(leftReplace, rightReplace)>>
         ELSE SplitRightIdentity(leftReplace, rightReplace,
                                 getLastSeparator(m, rightReplace.original))
    ELSE <<MergedPair(leftReplace, rightReplace)>>

----------------------------------------------------------------------------
(* reduceReplaceSet and mergeInsertions *)

\* the reducer callback of reduceReplaceSet (adjacent pairs)
ReduceCallback(accumulator, curr, seps) ==
    IF Len(accumulator) = 0 THEN <<curr>>
    ELSE Front(accumulator)
         \o mergeReplacePair(accumulator[Len(accumulator)], curr, MatchersFor(seps))

\* the fold of reduceReplaceSet from the accumulator over the rest of the list
RECURSIVE ReduceFrom(_, _, _)
ReduceFrom(accumulator, rest, seps) ==
    IF Len(rest) = 0 THEN accumulator
    ELSE ReduceFrom(ReduceCallback(accumulator, rest[1], seps), Tail(rest), seps)

reduceReplaceSet(list, seps) == ReduceFrom(<<>>, list, seps)

\* Faulty variant of mergeInsertionPair: the space moves but the offsets
\* stay.
mergeInsertionPairOffsetsKept(left, right) ==
    IF /\ left.original = <<>>
       /\ StartsWith(right.original, <<SP>>)
       /\ StartsWith(right.replacement, <<SP>>)
    THEN <<Replace(left.from, left.to,
                   left.original \o <<SP>>, left.replacement \o <<SP>>),
           Replace(right.from, right.to,
                   Tail(right.original), Tail(right.replacement))>>
    ELSE IF /\ right.original = <<>>
            /\ EndsWith(left.original, <<SP>>)
            /\ EndsWith(left.replacement, <<SP>>)
    THEN <<Replace(left.from, left.to,
                   Front(left.original), Front(left.replacement)),
           Replace(right.from, right.to,
                   <<SP>> \o right.original, <<SP>> \o right.replacement)>>
    ELSE <<left, right>>

mergeInsertionPair(left, right) ==
    IF /\ left.original = <<>>
       /\ StartsWith(right.original, <<SP>>)
       /\ StartsWith(right.replacement, <<SP>>)
    THEN <<Replace(left.from, left.to + 1,
                   left.original \o <<SP>>, left.replacement \o <<SP>>),
           Replace(right.from + 1, right.to,
                   Tail(right.original), Tail(right.replacement))>>
    ELSE IF /\ right.original = <<>>
            /\ EndsWith(left.original, <<SP>>)
            /\ EndsWith(left.replacement, <<SP>>)
    THEN <<Replace(left.from, left.to - 1,
                   Front(left.original), Front(left.replacement)),
           Replace(right.from - 1, right.to,
                   <<SP>> \o right.original, <<SP>> \o right.replacement)>>
    ELSE <<left, right>>

\* the reducer callback of mergeInsertions
InsertionCallback(accumulator, curr) ==
    IF Len(accumulator) = 0 THEN <<curr>>
    ELSE Front(accumulator) \o mergeInsertionPair(accumulator[Len(accumulator)], curr)

----------------------------------------------------------------------------
(* The diff engine (fast-diff, an external collaborator): any script of     *)
(* non-empty ops whose EQUAL+DELETE texts concatenate to the original and   *)
(* whose EQUAL+INSERT texts concatenate to the fixed text.                  *)

Drop(text, k) == SubSeq(text, k + 1, Len(text))

Take(text, k) == SubSeq(text, 1, k)

\* the scripts for (o, f) whose ops carry at most n characters in all
RECURSIVE EditScripts(_, _, _)
EditScripts(o, f, n) ==
    (IF o = <<>> /\ f = <<>> THEN {<<>>} ELSE {})
    \cup UNION {{<<<<"EQUAL", Take(o, k)>>>> \o rest :
                    rest \in EditScripts(Drop(o, k), Drop(f, k), n - k)} :
                k \in {j \in 1..Len(o) : j <= n /\ j <= Len(f) /\ Take(o, j) = Take(f, j)}}
    \cup UNION {{<<<<"DELETE", Take(o, k)>>>> \o rest :
                    rest \in EditScripts(Drop(o, k), f, n - k)} :
                k \in {j \in 1..Len(o) : j <= n}}
    \cup UNION {{<<<<"INSERT", Take(f, k)>>>> \o rest :
                    rest \in EditScripts(o, Drop(f, k), n - k)} :
                k \in {j \in 1..Len(f) : j <= n}}

----------------------------------------------------------------------------
(* getDiff, statement by statement *)

NoFragment == Replace(0, 0, <<>>, <<>>)

NoCall == [left |-> NoFragment, right |-> NoFragment, matchers |-> DefaultMatchers,
           text |-> <<>>]

\* the state before a getDiff(original, fixed, options) call runs
Start(texts, optionChoices) ==
    /\ original \in texts
    /\ fixed \in texts
    /\ EditScripts(original, fixed, MaxScriptLen) # {}
    /\ options \in optionChoices
    /\ separators = <<>>
    /\ changes = <<>>
    /\ pc = "options"
    /\ replaceSet = <<>>
    /\ idx = 0
    /\ acc = <<>>
    /\ lastMerge = <<>>
    /\ result = <<>>
    /\ call = NoCall
    /\ ret = <<>>

\* const mergedOptions = { ...defaultOptions, ...options };
\* mergedOptions.separators = fixSeparators(mergedOptions.separators);
FixSeparators ==
    /\ pc = "options"
    /\ LET mergedOptions == IF options = <<>> THEN defaultOptions
                            ELSE [separators |-> options[1]]
           fixedSeparators == fixSeparators(mergedOptions.separators)
       IN  IF Len(fixedSeparators) = 0
           THEN pc' = "ConfigurationError" /\ UNCHANGED separators
           ELSE pc' = "diff" /\ separators' = fixedSeparators
    /\ UNCHANGED <<options, original, fixed, changes, replaceSet, idx, acc,
                   lastMerge, result, call, ret>>

\* const changes = diff(original, fixed);
Diff ==
    /\ pc = "diff"
    /\ changes' \in EditScripts(original, fixed, MaxScriptLen)
    /\ pc' = "convert"
    /\ UNCHANGED <<options, original, fixed, separators, replaceSet, idx, acc,
                   lastMerge, result, call, ret>>

\* const replaceSet = convertDiffToReplaceSet(changes);
Convert ==
    /\ pc = "convert"
    /\ replaceSet' = convertDiffToReplaceSet(changes)
    /\ idx' = 0
    /\ acc' = <<>>
    /\ pc' = "reduce1"
    /\ UNCHANGED <<options, original, fixed, separators, changes, lastMerge,
                   result, call, ret>>

\* one call of the reducer callback of reduceReplaceSet, in either pass
ReduceStep ==
    /\ pc \in {"reduce1", "reduce2"}
    /\ idx < Len(replaceSet)
    /\ LET curr == replaceSet[idx + 1]
           last == acc[Len(acc)]
       IN  IF Len(acc) = 0
           THEN /\ acc' = <<curr>>
                /\ idx' = idx + 1
                /\ UNCHANGED <<pc, lastMerge>>
           ELSE IF ~Adjacent(last, curr)
           THEN /\ pc' = "AdjacencyError"
                /\ UNCHANGED <<acc, idx, lastMerge>>
           ELSE /\ acc' = ReduceCallback(acc, curr, separators)
                /\ idx' = idx + 1
                /\ lastMerge' = <<[left |-> last, right |-> curr,
                                   merged |-> mergeReplacePair(last, curr,
                                                  MatchersFor(separators))]>>
                /\ UNCHANGED pc
    /\ UNCHANGED <<options, original, fixed, separators, changes, replaceSet,
                   result, call, ret>>

\* a pass of reduceReplaceSet returns its accumulator, the next fold starts
ReduceReturn ==
    /\ pc \in {"reduce1", "reduce2"}
    /\ idx = Len(replaceSet)
    /\ replaceSet' = acc
    /\ idx' = 0
    /\ acc' = <<>>
    /\ pc' = IF pc = "reduce1" THEN "reduce2" ELSE "insertions"
    /\ UNCHANGED <<options, original, fixed, separators, changes, lastMerge,
                   result, call, ret>>

\* one call of the reducer callback of mergeInsertions
MergeInsertionsStep ==
    /\ pc = "insertions"
    /\ idx < Len(replaceSet)
    /\ acc' = InsertionCallback(acc, replaceSet[idx + 1])
    /\ idx' = idx + 1
    /\ UNCHANGED <<options, original, fixed, separators, changes, pc,
                   replaceSet, lastMerge, result, call, ret>>

\* return mergeInsertions(reducedReplaceSet);
Return ==
    /\ pc = "insertions"
    /\ idx = Len(replaceSet)
    /\ result' = acc
    /\ pc' = "done"
    /\ UNCHANGED <<options, original, fixed, separators, changes, replaceSet,
                   idx, acc, lastMerge, call, ret>>

GetDiffNext ==
    \/ FixSeparators
    \/ Diff
    \/ Convert
    \/ ReduceStep
    \/ ReduceReturn
    \/ MergeInsertionsStep
    \/ Return

\* the option arguments of the modelled calls: absent, several separators
\* with an empty one among them, one separator that is not the space, and
\* nothing but an empty separator
OptionChoices ==
    {<<>>,
     << <<<<SP>>, <<>>, <<"a", SP>>>> >>,
     << <<<<"a">>>> >>,
     << <<<<>>>> >>}

Init == Start(Texts({"a", SP}, MaxScriptLen), OptionChoices)

Next == GetDiffNext

Spec == Init /\ [][Next]_vars

\* getDiff over line-break characters with the separators ["\r", "\r\n"]
InitCRLF == Start(Texts({CR, LF}, MaxScriptLen), {<< <<<<CR>>, <<CR, LF>>>> >>})

SpecCRLF == InitCRLF /\ [][Next]_vars

----------------------------------------------------------------------------
(* Direct calls of the exported mergeReplacePair *)

UnitChars == {"a", SP, LF}

\* the <<original, replacement>> pairs of the fragments with c characters
FragmentTexts(c) ==
    {<<t, t>> : t \in TextsOfLen(UnitChars, c)}
    \cup UNION {{<<o, r>> : r \in TextsOfLen(UnitChars, c - Len(o)) \ {o}} :
                    o \in Texts(UnitChars, c)}

\* the matcher arguments of the modelled calls: the defaults, and the
\* matchers built for a one-character separator, for several one-character
\* separators and for separators of different lengths
PairMatchers ==
    {DefaultMatchers,
     MatchersFor(<< <<LF>> >>),
     MatchersFor(<< <<SP>>, <<LF>> >>),
     MatchersFor(<< <<SP, LF>>, <<SP>> >>)}

\* a left fragment at `from`, a right fragment `gap` behind its end
PairCall(l, r, from, gap, m) ==
    [left |-> Replace(from, from + Len(l[1]), l[1], l[2]),
     right |-> Replace(from + Len(l[1]) + gap,
                       from + Len(l[1]) + gap + Len(r[1]), r[1], r[2]),
     matchers |-> m,
     text |-> <<>>]

\* the state before a direct call with the given arguments
StartCall(arguments, entry) ==
    /\ call = arguments
    /\ pc = entry
    /\ ret = <<>>
    /\ options = <<>>
    /\ original = <<>>
    /\ fixed = <<>>
    /\ separators = <<>>
    /\ changes = <<>>
    /\ replaceSet = <<>>
    /\ idx = 0
    /\ acc = <<>>
    /\ lastMerge = <<>>
    /\ result = <<>>

getDiffVars == <<options, original, fixed, separators, changes, replaceSet,
                 idx, acc, lastMerge, result>>

\* mergeReplacePair(call.left, call.right, ...matchers)
CallMergeReplacePair ==
    /\ pc = "mergeReplacePair"
    /\ IF Adjacent(call.left, call.right)
       THEN /\ ret' = <<mergeReplacePair(call.left, call.right, call.matchers)>>
            /\ pc' = "returned"
       ELSE /\ pc' = "AdjacencyError"
            /\ UNCHANGED ret
    /\ UNCHANGED <<call, getDiffVars>>

InitPair ==
    \E cl \in 0..MaxPairLen : \E cr \in 0..(MaxPairLen - cl) :
        \E l \in FragmentTexts(cl), r \in FragmentTexts(cr),
           from \in 0..(MaxPairLen - cl - cr), gap \in {0, 1}, m \in PairMatchers :
            StartCall(PairCall(l, r, from, gap, m), "mergeReplacePair")

NextPair == CallMergeReplacePair

SpecPair == InitPair /\ [][NextPair]_vars

----------------------------------------------------------------------------
(* Direct calls of the separator matchers *)

\* the separators of a raw list: empty, one or two characters
RawSeparators == Texts(UnitChars, 2)

\* every list fixSeparators returns for a raw list of one or two separators
NormalizedSeparatorLists ==
    {fixSeparators(raw) :
        raw \in {<<a>> : a \in RawSeparators}
                \cup {<<a, b>> : a \in RawSeparators, b \in RawSeparators}}
    \ {<<>>}

MatcherCall(seps, t) ==
    [left |-> NoFragment, right |-> NoFragment, matchers |-> MatchersFor(seps),
     text |-> t]

CallStartsWithSeparator ==
    /\ pc = "matchers"
    /\ ret' = <<startsWithSeparator(call.matchers, call.text)>>
    /\ pc' = "startsWithSeparator"
    /\ UNCHANGED <<call, getDiffVars>>

CallEndsWithSeparator ==
    /\ pc = "matchers"
    /\ ret' = <<endsWithSeparator(call.matchers, call.text)>>
    /\ pc' = "endsWithSeparator"
    /\ UNCHANGED <<call, getDiffVars>>

CallGetLastSeparator ==
    /\ pc = "matchers"
    /\ ret' = <<getLastSeparator(call.matchers, call.text)>>
    /\ pc' = "getLastSeparator"
    /\ UNCHANGED <<call, getDiffVars>>

InitMatchers ==
    \E seps \in NormalizedSeparatorLists, t \in Texts(UnitChars, MaxPairLen) :
        StartCall(MatcherCall(seps, t), "matchers")

NextMatchers ==
    \/ CallStartsWithSeparator
    \/ CallEndsWithSeparator
    \/ CallGetLastSeparator

SpecMatchers == InitMatchers /\ [][NextMatchers]_vars

----------------------------------------------------------------------------
(* Vocabulary of the properties *)

\* the part of replaceSet the running fold has not consumed yet
Pending == SubSeq(replaceSet, idx + 1, Len(replaceSet))

Originals(list) == Concat([k \in 1..Len(list) |-> list[k].original])

Replacements(list) == Concat([k \in 1..Len(list) |-> list[k].replacement])

Lossless(list) == Originals(list) = original /\ Replacements(list) = fixed

Contiguous(list) ==
    /\ Len(list) > 0 => list[1].from = 0
    /\ \A k \in 1..(Len(list) - 1) : list[k].to = list[k + 1].from

\* f covers exactly original[f.from, f.to)
CoversOriginal(f) ==
    /\ 0 <= f.from
    /\ f.from <= f.to
    /\ f.to <= Len(original)
    /\ f.original = SubSeq(original, f.from + 1, f.to)
    /\ f.to - f.from = Len(f.original)
    /\ (f.from = f.to) <=> (f.original = <<>>)

\* text starts with / ends with / contains a member of the separator list
StartsWithSome(text, seps) == \E k \in 1..Len(seps) : StartsWith(text, seps[k])

EndsWithSome(text, seps) == \E k \in 1..Len(seps) : EndsWith(text, seps[k])

ContainsSome(text, seps) == \E k \in 1..Len(seps) : Occurrences(text, seps[k]) # {}

\* the start index of the leftmost occurrence of any separator in text
FirstSeparatorIndex(text, seps) ==
    Min(UNION {Occurrences(text, seps[k]) : k \in 1..Len(seps)})

\* the list of a getDiff stage: it is running or just finished
InStages == pc \in {"reduce1", "reduce2", "insertions"}

----------------------------------------------------------------------------
(* C1 *)

\* C1: every produced list is lossless: the output of
\* convertDiffToReplaceSet, the output of each reduceReplaceSet pass, the
\* accumulator of a running fold together with the fragments it has not
\* consumed yet, and the list getDiff returns all concatenate to the original
\* text on the `original` side and to the fixed text on the `replacement` side.
CoverageHolds ==
    /\ InStages => Lossless(replaceSet) /\ Lossless(acc \o Pending)
    /\ pc = "done" => Lossless(result)

\* a returned list in which the reducer has moved a word across a boundary
\* of the raw script
CoverageWitness ==
    /\ pc = "done"
    /\ Len(changes) = 2
    /\ Len(result) = 2
    /\ result = replaceSet
    /\ isIdentity(result[1])
    /\ ~isIdentity(result[2])
    /\ result[1].original # changes[1][2]

----------------------------------------------------------------------------
(* C2 *)

\* C2: at every stage of getDiff consecutive fragments are contiguous
\* (left.to = right.from) and a non-empty list starts at 0: this holds of the
\* converter's output, of every accumulator of both reduceReplaceSet passes
\* and of mergeInsertions, and of the result; every pair the reducer hands to
\* mergeReplacePair is adjacent, so the adjacency error is never raised.
ContiguityHolds ==
    /\ pc # "AdjacencyError"
    /\ InStages => Contiguous(replaceSet) /\ Contiguous(acc)
    /\ (pc \in {"reduce1", "reduce2"} /\ idx < Len(replaceSet) /\ Len(acc) > 0)
          => Adjacent(acc[Len(acc)], replaceSet[idx + 1])
    /\ pc = "done" => Contiguous(result)

\* the second pass, over a list the first pass has re-split, is about to
\* hand a pair to mergeReplacePair
ContiguityWitness ==
    /\ pc = "reduce2"
    /\ Len(acc) >= 1
    /\ idx < Len(replaceSet)
    /\ Len(replaceSet) = Len(changes)
    /\ replaceSet # convertDiffToReplaceSet(changes)

----------------------------------------------------------------------------
(* C3 *)

\* C3: every fragment of the list getDiff returns, and of every accumulator
\* of mergeInsertions, lies within the original text and its `original` is
\* exactly original[from, to); it has from = to exactly when `original` is
\* empty.
FragmentsCoverOriginal ==
    /\ pc = "insertions" => \A k \in 1..Len(acc) : CoversOriginal(acc[k])
    /\ pc = "done" => \A k \in 1..Len(result) : CoversOriginal(result[k])

\* a returned list in which mergeInsertions has shifted a space
FragmentsCoverOriginalWitness ==
    /\ pc = "done"
    /\ result # replaceSet
    /\ \E k \in 1..Len(result) : result[k].from > 0 /\ result[k].from < result[k].to

----------------------------------------------------------------------------
(* C4 *)

\* of two consecutive fragments exactly one is an identity
OneIdentity(left, right) == isIdentity(left) # isIdentity(right)

\* C4 as stated: in the returned list an identity fragment that contains a
\* separator ends with a separator when the edit is on its right and starts
\* with a separator when the edit is on its left.
IdentityEndsAtSeparator ==
    pc = "done" =>
        \A k \in 1..(Len(result) - 1) :
            LET left == result[k]
                right == result[k + 1]
            IN  OneIdentity(left, right) =>
                    /\ (isIdentity(left) /\ ContainsSome(left.original, separators))
                          => EndsWithSome(left.original, separators)
                    /\ (isIdentity(right) /\ ContainsSome(right.original, separators))
                          => StartsWithSome(right.original, separators)

\* the boundary of the pair touches a separator: the identity fragment has
\* one there, or the edit has one there in its original or its replacement
BoundaryAtSeparator(left, right, seps) ==
    /\ (isIdentity(left) /\ ContainsSome(left.original, seps))
          => \/ EndsWithSome(left.original, seps)
             \/ StartsWithSome(right.original, seps)
             \/ StartsWithSome(right.replacement, seps)
    /\ (isIdentity(right) /\ ContainsSome(right.original, seps))
          => \/ StartsWithSome(right.original, seps)
             \/ EndsWithSome(left.original, seps)
             \/ EndsWithSome(left.replacement, seps)

BoundariesAtSeparators(list, seps) ==
    \A k \in 1..(Len(list) - 1) :
        OneIdentity(list[k], list[k + 1])
            => BoundaryAtSeparator(list[k], list[k + 1], seps)

\* C4, amended: in the twice-reduced list, and in the returned list when the
\* space is one of the separators, the boundary between an identity fragment
\* that contains a separator and an edit next to it has a separator on one of
\* its sides: the identity text ends (starts) with one, or the edit's
\* original or replacement starts (ends) with one there.
BoundaryTouchesSeparator ==
    /\ pc = "insertions" => BoundariesAtSeparators(replaceSet, separators)
    /\ (pc = "done" /\ <<SP>> \in separatorSet(separators))
          => BoundariesAtSeparators(result, separators)

\* a returned list with an identity fragment that was cut at its last
\* separator, next to an edit that has no separator at the boundary
BoundaryTouchesSeparatorWitness ==
    /\ pc = "done"
    /\ <<SP>> \in separatorSet(separators)
    /\ \E k \in 1..(Len(result) - 1) :
          /\ isIdentity(result[k])
          /\ ~isIdentity(result[k + 1])
          /\ EndsWithSome(result[k].original, separators)
          /\ ~StartsWithSome(result[k + 1].original, separators)
          /\ ~StartsWithSome(result[k + 1].replacement, separators)
          /\ \A j \in 1..Len(changes) : changes[j][2] # result[k].original

----------------------------------------------------------------------------
(* C7 *)

NoTwoIdentities(list) ==
    \A k \in 1..(Len(list) - 1) : ~(isIdentity(list[k]) /\ isIdentity(list[k + 1]))

NoTwoEdits(list) ==
    \A k \in 1..(Len(list) - 1) : isIdentity(list[k]) \/ isIdentity(list[k + 1])

\* C7 as stated: a third reduceReplaceSet returns the twice-reduced list
\* unchanged, which has no two consecutive edits and no two consecutive
\* identity fragments.
TwoPassesSuffice ==
    pc = "insertions" =>
        /\ reduceReplaceSet(replaceSet, separators) = replaceSet
        /\ NoTwoEdits(replaceSet)
        /\ NoTwoIdentities(replaceSet)

\* C7, amended: a third reduceReplaceSet never returns more fragments than
\* the twice-reduced list has, and whenever it returns that list unchanged
\* the list has no two consecutive edits and no two consecutive identity
\* fragments.
ThirdPassOnlyMerges ==
    pc = "insertions" =>
        /\ Len(reduceReplaceSet(replaceSet, separators)) <= Len(replaceSet)
        /\ reduceReplaceSet(replaceSet, separators) = replaceSet
              => NoTwoEdits(replaceSet) /\ NoTwoIdentities(replaceSet)

\* the second pass has merged what the first pass left, and a third pass
\* finds nothing more to do
ThirdPassOnlyMergesWitness ==
    /\ pc = "insertions"
    /\ Len(replaceSet) >= 2
    /\ replaceSet # reduceReplaceSet(convertDiffToReplaceSet(changes), separators)
    /\ reduceReplaceSet(replaceSet, separators) = replaceSet

----------------------------------------------------------------------------
(* C10 *)

\* C10: no fragment of the returned list is empty on both sides.
NoEmptyFragment ==
    pc = "done" =>
        \A k \in 1..Len(result) :
            result[k].original # <<>> \/ result[k].replacement # <<>>

----------------------------------------------------------------------------
(* C5 *)

\* the separators the matchers of a direct call look for
SeparatorsOf(m) == IF m.default THEN <<<<SP>>>> ELSE m.separators

\* C5: for an adjacent pair mergeReplacePair returns one or two fragments
\* that start at left.from, end at right.to, are contiguous, and concatenate
\* to left.original + right.original and left.replacement + right.replacement.
PairMergeContract ==
    pc = "returned" =>
        LET out == ret[1]
        IN  /\ Len(out) \in {1, 2}
            /\ out[1].from = call.left.from
            /\ out[Len(out)].to = call.right.to
            /\ Len(out) = 2 => out[1].to = out[2].from
            /\ Originals(out) = call.left.original \o call.right.original
            /\ Replacements(out) = call.left.replacement \o call.right.replacement

\* a call that returned two fragments cut somewhere else than the arguments
PairMergeContractWitness ==
    /\ pc = "returned"
    /\ Len(ret[1]) = 2
    /\ ret[1] # <<call.left, call.right>>
    /\ ret[1][1].to > ret[1][1].from
    /\ ret[1][2].to > ret[1][2].from

----------------------------------------------------------------------------
(* C6 *)

\* position k of text (k characters before it) lies between the "\r" and
\* the "\n" of a "\r\n"
InsideCRLF(text, k) ==
    /\ 0 < k
    /\ k < Len(text)
    /\ text[k] = CR
    /\ text[k + 1] = LF

\* the finder returns the occurrence of a separator with the largest start
\* index, and "\r\n" rather than "\r" where both start there
FindsRightmost(text, seps) ==
    LET found == lastSeparatorFactory(seps, text)
        starts == UNION {Occurrences(text, seps[k]) : k \in 1..Len(seps)}
    IN  IF starts = {}
        THEN found.i = -1
        ELSE /\ found.i = Max(starts)
             /\ found.s \in separatorSet(seps)
             /\ found.i \in Occurrences(text, found.s)
             /\ found.i \in Occurrences(text, <<CR, LF>>) => found.s = <<CR, LF>>

\* where the reducer's last mergeReplacePair call cut its identity argument
\* (the number of characters before the cut); -1 when it cut none
CutOfLeftIdentity(m) ==
    IF isIdentity(m.left) /\ ~isIdentity(m.right) /\ Len(m.merged) = 2
    THEN m.merged[1].to - m.left.from
    ELSE -1

CutOfRightIdentity(m) ==
    IF ~isIdentity(m.left) /\ isIdentity(m.right) /\ Len(m.merged) = 2
    THEN m.merged[2].from - m.right.from
    ELSE -1

----------------------------------------------------------------------------
(* C8 *)

\* C8: when right is an identity that contains a separator, left is an edit
\* the guard does not keep apart, and mergeReplacePair returns the rest of
\* right as a fragment of its own, the text moved onto left is the prefix of
\* right.original before the leftmost occurrence of any separator, and the
\* rest starts at that occurrence.
FirstWordMoves ==
    (/\ pc = "returned"
     /\ ~isIdentity(call.left)
     /\ isIdentity(call.right)
     /\ ~LeaveLeftAsIs(call.left, call.matchers)
     /\ ContainsSome(call.right.original, SeparatorsOf(call.matchers))
     /\ Len(ret[1]) = 2)
        => LET k == FirstSeparatorIndex(call.right.original,
                                        SeparatorsOf(call.matchers))
               word == Take(call.right.original, k)
           IN  /\ ret[1][1].original = call.left.original \o word
               /\ ret[1][1].replacement = call.left.replacement \o word
               /\ ret[1][2].original = Drop(call.right.original, k)
               /\ ~ContainsSome(word, SeparatorsOf(call.matchers))

----------------------------------------------------------------------------
(* C9 *)

\* C9: for every normalized separator list startsWithSeparator(t) is true
\* exactly when t starts with a member of the list, and endsWithSeparator(t)
\* exactly when t ends with one.
MatchersIgnoreSetSize ==
    /\ pc = "startsWithSeparator"
          => ret[1] = StartsWithSome(call.text, call.matchers.separators)
    /\ pc = "endsWithSeparator"
          => ret[1] = EndsWithSome(call.text, call.matchers.separators)

====
